---- MODULE Spec2Model ----
(***************************************************************************)
(* Model of src/src/board.c: the idle-driven BLE connection-parameter      *)
(* power state machine (power_mode_transition, reset_idle_timer, the       *)
(* connection callbacks) and the JIS/US keycode remap listener             *)
(* (us_printed_on_jis_keycode_listener, proc_regist_keycode).              *)
(*                                                                         *)
(* Time is in milliseconds.  Handlers run to completion, one at a time.    *)
(* The delayable work item fires exactly at its deadline.                  *)
(***************************************************************************)
EXTENDS Integers, Sequences, FiniteSets, TLC

\* ------------------------------------------------------------------------
\* Program constants
\* ------------------------------------------------------------------------
SLEEP1_TIMEOUT_MS == 5000
SLEEP2_TIMEOUT_MS == 15000
SLEEP3_TIMEOUT_MS == 30000
USB_POLL_MS == 5000
CONFIG_ZMK_SPLIT_BLE_PREF_INT == 6
CONFIG_ZMK_SPLIT_BLE_PREF_LATENCY == 30
CONFIG_ZMK_SPLIT_BLE_PREF_TIMEOUT == 400

ACTIVE_CONN_INTERVAL == CONFIG_ZMK_SPLIT_BLE_PREF_INT
SLEEP1_CONN_INTERVAL == CONFIG_ZMK_SPLIT_BLE_PREF_INT * 2
SLEEP2_CONN_INTERVAL == CONFIG_ZMK_SPLIT_BLE_PREF_INT * 4
SLEEP3_CONN_INTERVAL == CONFIG_ZMK_SPLIT_BLE_PREF_INT * 8
CONN_LATENCY == CONFIG_ZMK_SPLIT_BLE_PREF_LATENCY
SLEEP1_CONN_LATENCY == (CONFIG_ZMK_SPLIT_BLE_PREF_LATENCY + 1) \div 2
SLEEP2_CONN_LATENCY == (CONFIG_ZMK_SPLIT_BLE_PREF_LATENCY + 3) \div 4
SLEEP3_CONN_LATENCY == (CONFIG_ZMK_SPLIT_BLE_PREF_LATENCY + 7) \div 8
SUPERVISION_TIMEOUT == CONFIG_ZMK_SPLIT_BLE_PREF_TIMEOUT

\* ------------------------------------------------------------------------
\* Bounds of the model
\* ------------------------------------------------------------------------
MaxTime == 35000
NumConns == 2
MaxDepth == 6
MaxBase == 3
MaxLatency == 30

\* Granularity of the passage of time between events.
TimeStep == SLEEP1_TIMEOUT_MS \div 2

\* ------------------------------------------------------------------------
\* Values
\* ------------------------------------------------------------------------
POWER_MODE_ACTIVE == "ACTIVE"
POWER_MODE_SLEEP1 == "SLEEP1"
POWER_MODE_SLEEP2 == "SLEEP2"
POWER_MODE_SLEEP3 == "SLEEP3"
power_mode == {POWER_MODE_ACTIVE, POWER_MODE_SLEEP1, POWER_MODE_SLEEP2, POWER_MODE_SLEEP3}
SleepModes == power_mode \ {POWER_MODE_ACTIVE}

ModeRank(m) ==
  CASE m = POWER_MODE_ACTIVE -> 0
    [] m = POWER_MODE_SLEEP1 -> 1
    [] m = POWER_MODE_SLEEP2 -> 2
    [] OTHER -> 3

NoConn == 0
Conns == 1..NumConns
NoReq == [conn |-> NoConn]
NoEval == [kind |-> "none"]
\* results of bt_conn_le_param_update: 0 or a negative errno
UpdateResults == {0, -22}

VARIABLES
  now,                 \* k_uptime_get()
  current_mode,
  last_activity_time,
  split_conn,
  work_pending,        \* power_mode_work is scheduled
  work_deadline,       \* uptime at which it fires (0 when not scheduled)
  usb_powered,         \* zmk_usb_is_powered()
  connected,           \* connections currently established
  last_req,            \* parameter update requested by the last step, or NoReq
  op,                  \* the last step taken and the evaluation it ran
  sched_req,           \* deadline asked by the latest k_work_schedule call (0: none outstanding)
  scn,                 \* observer of the power scenario: fresh link, no event since
  prev,                \* previous evaluation (policy specification only)
  retry_due,           \* observer: a request failed and no evaluation ran on the link since
  gs_lshift,
  gs_rshift,
  stack,               \* listener invocations in progress, innermost last
  done,                \* the invocation that returned in the last step
  held,                \* physical non-Shift key held down, or NoKey ("NONE")
  phys_l,              \* physical state of Left Shift
  phys_r,              \* physical state of Right Shift
  pre_press,           \* tracker value before the press of the held mapped key
  overflow,            \* the dispatch nesting exceeded MaxDepth
  down                 \* observer: keycodes pressed in the events the listener let bubble

powerVars == <<now, current_mode, last_activity_time, split_conn, work_pending,
               work_deadline, usb_powered, connected, last_req, op, sched_req, scn, prev,
               retry_due>>
remapVars == <<gs_lshift, gs_rshift, stack, done, held, phys_l, phys_r, pre_press, overflow,
               down>>
vars == <<now, current_mode, last_activity_time, split_conn, work_pending,
          work_deadline, usb_powered, connected, last_req, op, sched_req, scn, prev,
          retry_due, gs_lshift, gs_rshift, stack, done, held, phys_l, phys_r, pre_press, overflow,
          down>>

\* ------------------------------------------------------------------------
\* ConnectionParameterPolicy: the pure parts of power_mode_transition
\* ------------------------------------------------------------------------
\* variant: the handler runs on without a link
HasLink_Unchecked(conn) == TRUE

HasLink(conn) == conn # NoConn

\* variant: the thresholds compared with > instead of >=
TargetMode_Exclusive(idle_time) ==
  IF idle_time > SLEEP3_TIMEOUT_MS THEN POWER_MODE_SLEEP3
  ELSE IF idle_time > SLEEP2_TIMEOUT_MS THEN POWER_MODE_SLEEP2
  ELSE IF idle_time > SLEEP1_TIMEOUT_MS THEN POWER_MODE_SLEEP1
  ELSE POWER_MODE_ACTIVE

TargetMode(idle_time) ==
  IF idle_time >= SLEEP3_TIMEOUT_MS THEN POWER_MODE_SLEEP3
  ELSE IF idle_time >= SLEEP2_TIMEOUT_MS THEN POWER_MODE_SLEEP2
  ELSE IF idle_time >= SLEEP1_TIMEOUT_MS THEN POWER_MODE_SLEEP1
  ELSE POWER_MODE_ACTIVE

\* variant: the deepest mode keeps re-evaluating at the last threshold's period
NextTimeout_Sleep3Polls(mode, idle_time) ==
  LET next_timeout ==
        CASE mode = POWER_MODE_ACTIVE -> SLEEP1_TIMEOUT_MS - idle_time
          [] mode = POWER_MODE_SLEEP1 -> SLEEP2_TIMEOUT_MS - idle_time
          [] mode = POWER_MODE_SLEEP2 -> SLEEP3_TIMEOUT_MS - idle_time
          [] OTHER -> SLEEP3_TIMEOUT_MS
  IN IF next_timeout > 0 THEN next_timeout ELSE 0

\* variant: the next threshold counted from the mode change, not from the activity
NextTimeout_FromModeChange(mode, idle_time) ==
  CASE mode = POWER_MODE_ACTIVE -> SLEEP1_TIMEOUT_MS
    [] mode = POWER_MODE_SLEEP1 -> SLEEP2_TIMEOUT_MS
    [] mode = POWER_MODE_SLEEP2 -> SLEEP3_TIMEOUT_MS
    [] OTHER -> 0

\* the delay handed to k_work_schedule after the switch on the mode;
\* 0 when nothing is scheduled (SLEEP3 returns, next_timeout <= 0 is skipped)
NextTimeout(mode, idle_time) ==
  LET next_timeout ==
        CASE mode = POWER_MODE_ACTIVE -> SLEEP1_TIMEOUT_MS - idle_time
          [] mode = POWER_MODE_SLEEP1 -> SLEEP2_TIMEOUT_MS - idle_time
          [] mode = POWER_MODE_SLEEP2 -> SLEEP3_TIMEOUT_MS - idle_time
          [] OTHER -> 0
  IN IF mode = POWER_MODE_SLEEP3 THEN 0
     ELSE IF next_timeout > 0 THEN next_timeout ELSE 0

ConnParam(target_mode) ==
  CASE target_mode = POWER_MODE_ACTIVE ->
         [interval_min |-> ACTIVE_CONN_INTERVAL, interval_max |-> ACTIVE_CONN_INTERVAL,
          latency |-> CONN_LATENCY, timeout |-> SUPERVISION_TIMEOUT]
    [] target_mode = POWER_MODE_SLEEP1 ->
         [interval_min |-> SLEEP1_CONN_INTERVAL, interval_max |-> SLEEP1_CONN_INTERVAL,
          latency |-> SLEEP1_CONN_LATENCY, timeout |-> SUPERVISION_TIMEOUT]
    [] target_mode = POWER_MODE_SLEEP2 ->
         [interval_min |-> SLEEP2_CONN_INTERVAL, interval_max |-> SLEEP2_CONN_INTERVAL,
          latency |-> SLEEP2_CONN_LATENCY, timeout |-> SUPERVISION_TIMEOUT]
    [] OTHER ->
         [interval_min |-> SLEEP3_CONN_INTERVAL, interval_max |-> SLEEP3_CONN_INTERVAL,
          latency |-> SLEEP3_CONN_LATENCY, timeout |-> SUPERVISION_TIMEOUT]

UsbActiveParam ==
  [interval_min |-> ACTIVE_CONN_INTERVAL, interval_max |-> ACTIVE_CONN_INTERVAL,
   latency |-> CONN_LATENCY, timeout |-> SUPERVISION_TIMEOUT]

Req(conn, param) == [conn |-> conn, param |-> param]

\* variant: the poll is not rescheduled after a failed request
UsbBranch_NoPollOnFailure(conn, mode, err) ==
  [mode  |-> IF mode # POWER_MODE_ACTIVE /\ err = 0 THEN POWER_MODE_ACTIVE ELSE mode,
   delay |-> IF mode # POWER_MODE_ACTIVE /\ err # 0 THEN 0 ELSE USB_POLL_MS,
   req   |-> IF mode # POWER_MODE_ACTIVE THEN Req(conn, UsbActiveParam) ELSE NoReq,
   eval  |-> [kind |-> "usb", before |-> mode,
              err |-> IF mode # POWER_MODE_ACTIVE THEN err ELSE 0]]

\* USB power present: lines 56-77
UsbBranch(conn, mode, err) ==
  [mode  |-> IF mode # POWER_MODE_ACTIVE /\ err = 0 THEN POWER_MODE_ACTIVE ELSE mode,
   delay |-> USB_POLL_MS,
   req   |-> IF mode # POWER_MODE_ACTIVE THEN Req(conn, UsbActiveParam) ELSE NoReq,
   eval  |-> [kind |-> "usb", before |-> mode,
              err |-> IF mode # POWER_MODE_ACTIVE THEN err ELSE 0]]

\* variant: the mode and the next evaluation are set whatever the request returns
IdleBranch_IgnoreResult(conn, mode, idle_time, err) ==
  LET target_mode == TargetMode(idle_time)
      eval == [kind |-> "idle", before |-> mode, idle_time |-> idle_time,
               target_mode |-> target_mode,
               err |-> IF target_mode # mode THEN err ELSE 0]
  IN [mode |-> target_mode, delay |-> NextTimeout(target_mode, idle_time),
      req |-> IF target_mode = mode THEN NoReq ELSE Req(conn, ConnParam(target_mode)),
      eval |-> eval]

\* USB power absent: lines 79-174
\* (eval.err: what bt_conn_le_param_update returned, 0 when it was not called)
IdleBranch(conn, mode, idle_time, err) ==
  LET target_mode == TargetMode(idle_time)
      eval == [kind |-> "idle", before |-> mode, idle_time |-> idle_time,
               target_mode |-> target_mode,
               err |-> IF target_mode # mode THEN err ELSE 0]
  IN IF target_mode = mode
       THEN [mode |-> mode, delay |-> NextTimeout(mode, idle_time),
             req |-> NoReq, eval |-> eval]
     ELSE IF err = 0
       THEN [mode |-> target_mode, delay |-> NextTimeout(target_mode, idle_time),
             req |-> Req(conn, ConnParam(target_mode)), eval |-> eval]
     ELSE [mode |-> mode, delay |-> 0,
           req |-> Req(conn, ConnParam(target_mode)), eval |-> eval]

\* variant: USB power is looked at only when the mode is not active
power_mode_transition_UsbWhenAsleep(conn, usb, mode, last, t, err) ==
  IF ~HasLink(conn)
    THEN [mode |-> mode, delay |-> 0, req |-> NoReq,
          eval |-> [kind |-> "nolink", before |-> mode]]
  ELSE IF usb /\ mode # POWER_MODE_ACTIVE THEN UsbBranch(conn, mode, err)
  ELSE IdleBranch(conn, mode, t - last, err)

\* One run of the handler: the new mode, the delay it schedules (0: none),
\* the update it requests (or NoReq) and what it computed.
\* err is the result bt_conn_le_param_update gives if it is called.
power_mode_transition(conn, usb, mode, last, t, err) ==
  IF ~HasLink(conn)
    THEN [mode |-> mode, delay |-> 0, req |-> NoReq,
          eval |-> [kind |-> "nolink", before |-> mode]]
  ELSE IF usb THEN UsbBranch(conn, mode, err)
  ELSE IdleBranch(conn, mode, t - last, err)

\* ------------------------------------------------------------------------
\* The delayable work item
\* ------------------------------------------------------------------------
\* k_work_schedule leaves an already scheduled item alone
k_work_schedule(pending, deadline, t, delay) ==
  IF pending THEN [pending |-> TRUE, deadline |-> deadline]
  ELSE [pending |-> TRUE, deadline |-> t + delay]

k_work_cancel_delayable == [pending |-> FALSE, deadline |-> 0]

\* the work item after a handler run that found it in state w
AfterRun(w, res, t) ==
  IF res.delay > 0 THEN k_work_schedule(w.pending, w.deadline, t, res.delay) ELSE w

\* the deadline most recently asked for (0 when nothing is pending)
AskedAfterRun(w, res, t) ==
  IF res.delay > 0 THEN t + res.delay ELSE 0

\* ------------------------------------------------------------------------
\* Handlers of the power state machine, as functions of the state they read
\* ------------------------------------------------------------------------
\* the work queue runs power_mode_work: the item is no longer pending
RunWork(conn, usb, mode, last, t, err) ==
  LET w0  == [pending |-> FALSE, deadline |-> 0]
      res == power_mode_transition(conn, usb, mode, last, t, err)
  IN [mode |-> res.mode, work |-> AfterRun(w0, res, t),
      asked |-> AskedAfterRun(w0, res, t), req |-> res.req, eval |-> res.eval]

\* variant: the pending work is not cancelled before the handler acts
reset_idle_timer_NoCancel(conn, usb, mode, t, err) ==
  LET w0 == [pending |-> work_pending, deadline |-> work_deadline]
  IN IF mode # POWER_MODE_ACTIVE
       THEN LET res == power_mode_transition(conn, usb, mode, t, t, err)
            IN [last |-> t, mode |-> res.mode, work |-> AfterRun(w0, res, t),
                asked |-> AskedAfterRun(w0, res, t), req |-> res.req, eval |-> res.eval]
     ELSE [last |-> t, mode |-> mode,
           work |-> k_work_schedule(w0.pending, w0.deadline, t, SLEEP1_TIMEOUT_MS),
           asked |-> t + SLEEP1_TIMEOUT_MS, req |-> NoReq, eval |-> NoEval]

\* variant: outside the active mode the handler only cancels the pending work
reset_idle_timer_CancelOnly(conn, usb, mode, t, err) ==
  IF mode # POWER_MODE_ACTIVE
    THEN [last |-> t, mode |-> mode, work |-> k_work_cancel_delayable,
          asked |-> 0, req |-> NoReq, eval |-> NoEval]
  ELSE [last |-> t, mode |-> mode,
        work |-> k_work_schedule(FALSE, 0, t, SLEEP1_TIMEOUT_MS),
        asked |-> t + SLEEP1_TIMEOUT_MS, req |-> NoReq, eval |-> NoEval]

reset_idle_timer(conn, usb, mode, t, err) ==
  LET w0 == k_work_cancel_delayable
  IN IF mode # POWER_MODE_ACTIVE
       THEN LET res == power_mode_transition(conn, usb, mode, t, t, err)
            IN [last |-> t, mode |-> res.mode, work |-> AfterRun(w0, res, t),
                asked |-> AskedAfterRun(w0, res, t), req |-> res.req, eval |-> res.eval]
     ELSE [last |-> t, mode |-> mode,
           work |-> k_work_schedule(w0.pending, w0.deadline, t, SLEEP1_TIMEOUT_MS),
           asked |-> t + SLEEP1_TIMEOUT_MS, req |-> NoReq, eval |-> NoEval]

is_split_peripheral_conn(info_ok, role, type) ==
  IF ~info_ok THEN FALSE
  ELSE role = "BT_CONN_ROLE_CENTRAL" /\ type = "BT_CONN_TYPE_LE"

\* acquired: the callback went past its early return
power_mgmt_bt_conn_connected_cb(old, mode, last, w, asked, t, c, err, is_split) ==
  IF err # 0 \/ ~is_split
    THEN [acquired |-> FALSE, conn |-> old, mode |-> mode, last |-> last,
          work |-> w, asked |-> asked]
  ELSE [acquired |-> TRUE, conn |-> c, mode |-> mode, last |-> t,
        work |-> k_work_schedule(w.pending, w.deadline, t, SLEEP1_TIMEOUT_MS),
        asked |-> t + SLEEP1_TIMEOUT_MS]

\* variant: the stored mode is not reset when the link is lost
power_mgmt_bt_conn_disconnected_cb_KeepMode(old, mode, w, asked, c) ==
  IF c # old
    THEN [lost |-> FALSE, conn |-> old, mode |-> mode, work |-> w, asked |-> asked]
  ELSE [lost |-> TRUE, conn |-> NoConn, mode |-> mode,
        work |-> k_work_cancel_delayable, asked |-> 0]

\* lost: the callback went past its early return
power_mgmt_bt_conn_disconnected_cb(old, mode, w, asked, c) ==
  IF c # old
    THEN [lost |-> FALSE, conn |-> old, mode |-> mode, work |-> w, asked |-> asked]
  ELSE [lost |-> TRUE, conn |-> NoConn, mode |-> POWER_MODE_ACTIVE,
        work |-> k_work_cancel_delayable, asked |-> 0]

\* ------------------------------------------------------------------------
\* Observer of the power scenario: a link acquired on an idle controller (no
\* link tracked, nothing scheduled) without USB power, and since then no
\* activity, no connection event, no USB change and no failed request.
\* evals lists the idle durations at which evaluations ran since.
\* ------------------------------------------------------------------------
NoScn == [active |-> FALSE, t0 |-> 0, evals |-> <<>>]

ScnAfterEval(s, r, err) ==
  IF ~s.active THEN s
  ELSE IF r.eval.kind # "idle" \/ (r.req # NoReq /\ err # 0) THEN NoScn
  ELSE [s EXCEPT !.evals = Append(@, r.eval.idle_time)]

\* Observer of failed requests: after an evaluation on the link, a retry is
\* owed iff none was owed before and its request failed; a step that runs no
\* evaluation on the link leaves it as it is.
RetryAfter(due, eval) ==
  IF eval.kind \in {"idle", "usb"} THEN ~due /\ eval.err # 0 ELSE due

Work == [pending |-> work_pending, deadline |-> work_deadline]
Step(name, eval) == [name |-> name, eval |-> eval, before |-> current_mode]

\* ------------------------------------------------------------------------
\* Actions of the power state machine
\* ------------------------------------------------------------------------
PowerInit ==
  /\ now = 0
  /\ current_mode = POWER_MODE_ACTIVE
  /\ last_activity_time = 0
  /\ split_conn = NoConn
  /\ work_pending = FALSE
  /\ work_deadline = 0
  /\ usb_powered \in BOOLEAN
  /\ connected = {}
  /\ last_req = NoReq
  /\ op = [name |-> "init", eval |-> NoEval, before |-> POWER_MODE_ACTIVE]
  /\ sched_req = 0
  /\ scn = NoScn
  /\ prev = NoEval
  /\ retry_due = FALSE

RemapIdle ==
  /\ gs_lshift = FALSE
  /\ gs_rshift = FALSE
  /\ stack = <<>>
  /\ done = [kind |-> "none"]
  /\ held = "NONE"
  /\ phys_l = FALSE
  /\ phys_r = FALSE
  /\ pre_press = <<>>
  /\ overflow = FALSE
  /\ down = {}

\* time passes, but not beyond the deadline of the scheduled work
Tick ==
  /\ now + TimeStep <= MaxTime
  /\ ~(work_pending /\ work_deadline <= now)
  /\ now' = IF work_pending /\ work_deadline < now + TimeStep
              THEN work_deadline ELSE now + TimeStep
  /\ last_req' = NoReq
  /\ op' = Step("tick", NoEval)
  /\ UNCHANGED <<current_mode, last_activity_time, split_conn, work_pending,
                 work_deadline, usb_powered, connected, sched_req, scn, prev, retry_due>>
  /\ UNCHANGED remapVars

\* the delay of power_mode_work has elapsed: the work queue runs the handler
WorkFires ==
  /\ work_pending
  /\ work_deadline <= now
  /\ \E err \in UpdateResults :
       LET r == RunWork(split_conn, usb_powered, current_mode, last_activity_time, now, err)
       IN /\ current_mode' = r.mode
          /\ work_pending' = r.work.pending
          /\ work_deadline' = r.work.deadline
          /\ sched_req' = r.asked
          /\ last_req' = r.req
          /\ op' = Step("work", r.eval)
          /\ scn' = ScnAfterEval(scn, r, err)
          /\ retry_due' = RetryAfter(retry_due, r.eval)
  /\ UNCHANGED <<now, last_activity_time, split_conn, usb_powered, connected, prev>>
  /\ UNCHANGED remapVars

Activity(name) ==
  /\ \E err \in UpdateResults :
       LET r == reset_idle_timer(split_conn, usb_powered, current_mode, now, err)
       IN /\ last_activity_time' = r.last
          /\ current_mode' = r.mode
          /\ work_pending' = r.work.pending
          /\ work_deadline' = r.work.deadline
          /\ sched_req' = r.asked
          /\ last_req' = r.req
          /\ op' = Step(name, r.eval)
          /\ retry_due' = RetryAfter(retry_due, r.eval)
  /\ scn' = NoScn
  /\ UNCHANGED <<now, split_conn, usb_powered, connected, prev>>
  /\ UNCHANGED remapVars

position_state_changed_listener == Activity("key")

mouse_input_callback == Activity("mouse")

Connected ==
  /\ \E c \in Conns \ connected, err \in {0, 1}, info_ok \in BOOLEAN,
        role \in {"BT_CONN_ROLE_CENTRAL", "BT_CONN_ROLE_PERIPHERAL"},
        type \in {"BT_CONN_TYPE_LE", "BT_CONN_TYPE_BR"} :
       LET r == power_mgmt_bt_conn_connected_cb(split_conn, current_mode,
                  last_activity_time, Work, sched_req, now, c, err,
                  is_split_peripheral_conn(info_ok, role, type))
       IN /\ connected' = IF err = 0 THEN connected \cup {c} ELSE connected
          /\ split_conn' = r.conn
          /\ current_mode' = r.mode
          /\ last_activity_time' = r.last
          /\ work_pending' = r.work.pending
          /\ work_deadline' = r.work.deadline
          /\ sched_req' = r.asked
          /\ op' = Step(IF r.acquired THEN "link_acquired" ELSE "connect_ignored", NoEval)
          /\ scn' = IF ~r.acquired THEN scn
                    ELSE IF split_conn = NoConn /\ ~work_pending /\ ~usb_powered
                      THEN [active |-> TRUE, t0 |-> now, evals |-> <<>>]
                    ELSE NoScn
          /\ retry_due' = IF r.acquired THEN FALSE ELSE retry_due
  /\ last_req' = NoReq
  /\ UNCHANGED <<now, usb_powered, prev>>
  /\ UNCHANGED remapVars

Disconnected ==
  /\ \E c \in connected :
       LET r == power_mgmt_bt_conn_disconnected_cb(split_conn, current_mode, Work,
                                                   sched_req, c)
       IN /\ connected' = connected \ {c}
          /\ split_conn' = r.conn
          /\ current_mode' = r.mode
          /\ work_pending' = r.work.pending
          /\ work_deadline' = r.work.deadline
          /\ sched_req' = r.asked
          /\ op' = Step(IF r.lost THEN "link_lost" ELSE "disconnect_ignored", NoEval)
          /\ scn' = IF r.lost THEN NoScn ELSE scn
          /\ retry_due' = IF r.lost THEN FALSE ELSE retry_due
  /\ last_req' = NoReq
  /\ UNCHANGED <<now, last_activity_time, usb_powered, prev>>
  /\ UNCHANGED remapVars

\* USB power is plugged in or removed
UsbChange ==
  /\ usb_powered' = ~usb_powered
  /\ last_req' = NoReq
  /\ op' = Step("usb", NoEval)
  /\ scn' = NoScn
  /\ UNCHANGED <<now, current_mode, last_activity_time, split_conn, work_pending,
                 work_deadline, connected, sched_req, prev, retry_due>>
  /\ UNCHANGED remapVars

Init == PowerInit /\ RemapIdle

Next ==
  \/ Tick
  \/ WorkFires
  \/ position_state_changed_listener
  \/ mouse_input_callback
  \/ Connected
  \/ Disconnected
  \/ UsbChange

Spec == Init /\ [][Next]_vars

\* The kernel's clock advances and the system work queue runs a work item
\* whose delay has elapsed; nothing obliges a key, the pointer, the radio or
\* the USB cable to produce an event.
SpecLive == Init /\ [][Next]_vars /\ WF_vars(Tick) /\ WF_vars(WorkFires)


\* ------------------------------------------------------------------------
\* The evaluation step on drawn inputs: idle duration, stored mode, USB power
\* ------------------------------------------------------------------------
Durations ==
  {0, 1, SLEEP1_TIMEOUT_MS - 1, SLEEP1_TIMEOUT_MS, SLEEP1_TIMEOUT_MS + 1,
   SLEEP2_TIMEOUT_MS - 1, SLEEP2_TIMEOUT_MS, SLEEP2_TIMEOUT_MS + 1,
   SLEEP3_TIMEOUT_MS - 1, SLEEP3_TIMEOUT_MS, SLEEP3_TIMEOUT_MS + 1, MaxTime}

PolicyInit ==
  /\ now \in Durations
  /\ current_mode \in power_mode
  /\ last_activity_time = 0
  /\ split_conn = 1
  /\ work_pending = FALSE
  /\ work_deadline = 0
  /\ usb_powered \in BOOLEAN
  /\ connected = {1}
  /\ last_req = NoReq
  /\ op = [name |-> "draw", eval |-> NoEval, before |-> current_mode]
  /\ sched_req = 0
  /\ scn = NoScn
  /\ prev = NoEval
  /\ retry_due = FALSE
  /\ RemapIdle

\* power_mode_transition runs on the drawn inputs
PolicyEvaluate ==
  /\ op.name = "draw"
  /\ \E err \in UpdateResults :
       LET r == RunWork(split_conn, usb_powered, current_mode, last_activity_time, now, err)
       IN /\ current_mode' = r.mode
          /\ work_pending' = r.work.pending
          /\ work_deadline' = r.work.deadline
          /\ sched_req' = r.asked
          /\ last_req' = r.req
          /\ op' = Step("work", r.eval)
  /\ UNCHANGED <<now, last_activity_time, split_conn, usb_powered, connected, scn, prev,
                 retry_due>>
  /\ UNCHANGED remapVars

\* fresh inputs for the next evaluation; the last evaluation is kept in prev
PolicyDraw ==
  /\ op.name = "work"
  /\ now' \in Durations
  /\ current_mode' \in power_mode
  /\ usb_powered' \in BOOLEAN
  /\ work_pending' = FALSE
  /\ work_deadline' = 0
  /\ sched_req' = 0
  /\ last_req' = NoReq
  /\ prev' = op.eval
  /\ op' = [name |-> "draw", eval |-> NoEval, before |-> current_mode']
  /\ UNCHANGED <<last_activity_time, split_conn, connected, scn, retry_due>>
  /\ UNCHANGED remapVars

PolicyNext == PolicyEvaluate \/ PolicyDraw

SpecPolicy == PolicyInit /\ [][PolicyNext]_vars


\* ------------------------------------------------------------------------
\* The connection profiles as functions of the base configuration: the
\* macros of lines 27-35 with CONFIG_ZMK_SPLIT_BLE_PREF_INT = B,
\* CONFIG_ZMK_SPLIT_BLE_PREF_LATENCY = L, CONFIG_ZMK_SPLIT_BLE_PREF_TIMEOUT = S
\* (C integer division of non-negative operands)
\* ------------------------------------------------------------------------
\* variant: the latency divided without the rounding term
ProfileFor_PlainDivision(B, L, S, target_mode) ==
  CASE target_mode = POWER_MODE_ACTIVE ->
         [interval_min |-> B, interval_max |-> B, latency |-> L, timeout |-> S]
    [] target_mode = POWER_MODE_SLEEP1 ->
         [interval_min |-> B * 2, interval_max |-> B * 2, latency |-> L \div 2, timeout |-> S]
    [] target_mode = POWER_MODE_SLEEP2 ->
         [interval_min |-> B * 4, interval_max |-> B * 4, latency |-> L \div 4, timeout |-> S]
    [] OTHER ->
         [interval_min |-> B * 8, interval_max |-> B * 8, latency |-> L \div 8, timeout |-> S]

ProfileFor(B, L, S, target_mode) ==
  CASE target_mode = POWER_MODE_ACTIVE ->
         [interval_min |-> B, interval_max |-> B, latency |-> L, timeout |-> S]
    [] target_mode = POWER_MODE_SLEEP1 ->
         [interval_min |-> B * 2, interval_max |-> B * 2,
          latency |-> (L + 1) \div 2, timeout |-> S]
    [] target_mode = POWER_MODE_SLEEP2 ->
         [interval_min |-> B * 4, interval_max |-> B * 4,
          latency |-> (L + 3) \div 4, timeout |-> S]
    [] OTHER ->
         [interval_min |-> B * 8, interval_max |-> B * 8,
          latency |-> (L + 7) \div 8, timeout |-> S]

\* the profile of the USB branch, lines 60-65
UsbProfileFor(B, L, S) ==
  [interval_min |-> B, interval_max |-> B, latency |-> L, timeout |-> S]

Timeouts == {10, CONFIG_ZMK_SPLIT_BLE_PREF_TIMEOUT}

ProfileInit ==
  /\ PowerInit
  /\ ~usb_powered
  /\ RemapIdle

\* a profile is built for a drawn base configuration, mode and branch
ProfileDraw ==
  /\ \E B \in 1..MaxBase, L \in 0..MaxLatency, S \in Timeouts, mode \in power_mode,
        usb \in BOOLEAN :
       /\ last_req' = Req(1, IF usb THEN UsbProfileFor(B, L, S) ELSE ProfileFor(B, L, S, mode))
       /\ op' = [name |-> "profile", before |-> current_mode,
                 eval |-> [kind |-> "profile", B |-> B, L |-> L, S |-> S,
                           mode |-> IF usb THEN POWER_MODE_ACTIVE ELSE mode, usb |-> usb]]
  /\ UNCHANGED <<now, current_mode, last_activity_time, split_conn, work_pending,
                 work_deadline, usb_powered, connected, sched_req, scn, prev, retry_due>>
  /\ UNCHANGED remapVars

SpecProfile == ProfileInit /\ [][ProfileDraw]_vars


\* ------------------------------------------------------------------------
\* Keycode remap listener
\* ------------------------------------------------------------------------
ZMK_EV_EVENT_BUBBLE == "BUBBLE"
ZMK_EV_EVENT_HANDLED == "HANDLED"
LEFT_SHIFT == "LEFT_SHIFT"
RIGHT_SHIFT == "RIGHT_SHIFT"
CAPSLOCK == "CAPSLOCK"
NoKey == "NONE"
NoDone == [kind |-> "none"]

\* the case labels of the conversion switch
TableKeys ==
  {"N2", "N6", "N7", "N8", "N9", "N0", "MINUS", "EQUAL", "LBRC", "RBRC", "BSLH",
   "SEMICOLON", "QUOTE", "GRAVE", "TILD", "AT", "CARET", "AMPERSAND", "ASTERISK",
   "LPAR", "RPAR", "UNDER", "PLUS", "LBKT", "RBKT", "PIPE", "COLON", "DQUOTE",
   "PEQL", "COMMA"}

\* keycodes a key of the matrix can produce: the table keys, CapsLock, the
\* targets that are no table key, and "A" for every other key
PlainKeys == TableKeys \cup {CAPSLOCK, "INT1", "INT3", "NON_US_HASH", "A"}

Args(regist_ifshift, is_shift_ifshift, regist, is_shift) ==
  [regist_ifshift |-> regist_ifshift, is_shift_ifshift |-> is_shift_ifshift,
   regist |-> regist, is_shift |-> is_shift]

\* the arguments each case passes to proc_regist_keycode
TableEntry(keycode) ==
  CASE keycode = "N2" -> Args("LBRC", FALSE, "N2", FALSE)
    [] keycode = "N6" -> Args("EQUAL", FALSE, "N6", FALSE)
    [] keycode = "N7" -> Args("N6", TRUE, "N7", FALSE)
    [] keycode = "N8" -> Args("QUOTE", TRUE, "N8", FALSE)
    [] keycode = "N9" -> Args("N8", TRUE, "N9", FALSE)
    [] keycode = "N0" -> Args("N9", TRUE, "N0", FALSE)
    [] keycode = "MINUS" -> Args("INT1", TRUE, "MINUS", FALSE)
    [] keycode = "EQUAL" -> Args("SEMICOLON", TRUE, "MINUS", TRUE)
    [] keycode = "LBRC" -> Args("RBRC", TRUE, "RBRC", FALSE)
    [] keycode = "RBRC" -> Args("NON_US_HASH", TRUE, "NON_US_HASH", FALSE)
    [] keycode = "BSLH" -> Args("INT3", TRUE, "INT1", FALSE)
    [] keycode = "SEMICOLON" -> Args("QUOTE", FALSE, "SEMICOLON", FALSE)
    [] keycode = "QUOTE" -> Args("N2", TRUE, "N7", TRUE)
    [] keycode = "GRAVE" -> Args("EQUAL", TRUE, "LBRC", TRUE)
    [] keycode = "TILD" -> Args("EQUAL", TRUE, "EQUAL", TRUE)
    [] keycode = "AT" -> Args("LBRC", FALSE, "LBRC", FALSE)
    [] keycode = "CARET" -> Args("EQUAL", FALSE, "EQUAL", FALSE)
    [] keycode = "AMPERSAND" -> Args("N6", TRUE, "N6", TRUE)
    [] keycode = "ASTERISK" -> Args("QUOTE", TRUE, "QUOTE", TRUE)
    [] keycode = "LPAR" -> Args("N8", TRUE, "N8", TRUE)
    [] keycode = "RPAR" -> Args("N9", TRUE, "N9", TRUE)
    [] keycode = "UNDER" -> Args("INT1", TRUE, "INT1", TRUE)
    [] keycode = "PLUS" -> Args("SEMICOLON", TRUE, "SEMICOLON", TRUE)
    [] keycode = "LBKT" -> Args("RBRC", TRUE, "RBRC", TRUE)
    [] keycode = "RBKT" -> Args("NON_US_HASH", TRUE, "NON_US_HASH", TRUE)
    [] keycode = "PIPE" -> Args("INT3", TRUE, "INT3", TRUE)
    [] keycode = "COLON" -> Args("QUOTE", FALSE, "QUOTE", FALSE)
    [] keycode = "DQUOTE" -> Args("N2", TRUE, "N2", TRUE)
    [] keycode = "PEQL" -> Args("MINUS", TRUE, "MINUS", TRUE)
    [] OTHER -> Args("COMMA", FALSE, "COMMA", FALSE)

Ev(keycode, state) == [keycode |-> keycode, state |-> state]

\* One ZMK_EVENT_RAISE of the program of an invocation: the event, and the
\* flag the code tests right before it ("always": no test of gs_lshift or
\* gs_rshift guards it).  The tests of ev->state, shift_now, is_shift_ifshift
\* and is_shift do not change during the call and are resolved here.
Raise(guard, keycode, state) == [guard |-> guard, ev |-> Ev(keycode, state)]

IfHeld(state) == <<Raise("gs_lshift", LEFT_SHIFT, state), Raise("gs_rshift", RIGHT_SHIFT, state)>>
When(c, seq) == IF c THEN seq ELSE <<>>

\* variant: on press with Shift held the target is raised before the Shift releases
proc_regist_keycode_TargetFirst(state, shift_now, a) ==
  IF state
    THEN IF shift_now
           THEN <<Raise("always", a.regist_ifshift, TRUE)>>
                \o When(~a.is_shift_ifshift, IfHeld(FALSE))
         ELSE When(a.is_shift, <<Raise("always", LEFT_SHIFT, TRUE)>>)
              \o <<Raise("always", a.regist, TRUE)>>
  ELSE <<Raise("always", a.regist_ifshift, FALSE), Raise("always", a.regist, FALSE)>>

\* the raises of proc_regist_keycode in program order; shift_now is read once
proc_regist_keycode(state, shift_now, a) ==
  IF state
    THEN IF shift_now
           THEN When(~a.is_shift_ifshift, IfHeld(FALSE))
                \o <<Raise("always", a.regist_ifshift, TRUE)>>
         ELSE When(a.is_shift, <<Raise("always", LEFT_SHIFT, TRUE)>>)
              \o <<Raise("always", a.regist, TRUE)>>
  ELSE When(shift_now /\ ~a.is_shift_ifshift, IfHeld(FALSE))
       \o <<Raise("always", a.regist_ifshift, FALSE)>>
       \o When(shift_now /\ ~a.is_shift_ifshift, IfHeld(TRUE))
       \o When(~shift_now /\ a.is_shift, <<Raise("always", LEFT_SHIFT, TRUE)>>)
       \o <<Raise("always", a.regist, FALSE)>>
       \o When(~shift_now /\ a.is_shift, <<Raise("always", LEFT_SHIFT, FALSE)>>)

\* variant: the table cases fall through to the final return
ListenerReturn_FallThrough(keycode) ==
  IF keycode = CAPSLOCK THEN ZMK_EV_EVENT_HANDLED ELSE ZMK_EV_EVENT_BUBBLE

\* the value the listener returns for a keycode
ListenerReturn(keycode) ==
  IF keycode \in {LEFT_SHIFT, RIGHT_SHIFT} THEN ZMK_EV_EVENT_BUBBLE
  ELSE IF keycode = CAPSLOCK THEN ZMK_EV_EVENT_HANDLED
  ELSE IF keycode \in TableKeys THEN ZMK_EV_EVENT_HANDLED
  ELSE ZMK_EV_EVENT_BUBBLE

\* The listener on one event, up to its first ZMK_EVENT_RAISE: the tracker
\* after the Shift switch, the raises still to run, the value it will return.
us_printed_on_jis_keycode_listener(keycode, state, l, r) ==
  [l |-> IF keycode = LEFT_SHIFT THEN state ELSE l,
   r |-> IF keycode = RIGHT_SHIFT THEN state ELSE r,
   shift_now |-> l \/ r,
   prog |-> IF keycode \in {LEFT_SHIFT, RIGHT_SHIFT} THEN <<>>
            ELSE IF keycode = CAPSLOCK THEN <<Raise("always", "INT1", state)>>
            ELSE IF keycode \in TableKeys
              THEN proc_regist_keycode(state, l \/ r, TableEntry(keycode))
            ELSE <<>>,
   ret |-> ListenerReturn(keycode)]

\* an invocation of the listener: its event, whether the key matrix produced
\* it, the tracker it found, what it has raised and what it still has to run
Frame(ev, phys, l, r) ==
  LET res == us_printed_on_jis_keycode_listener(ev.keycode, ev.state, l, r)
  IN [kind |-> "frame", keycode |-> ev.keycode, state |-> ev.state, phys |-> phys,
      l0 |-> l, r0 |-> r, shift_now |-> res.shift_now, prog |-> res.prog,
      raised |-> <<>>, ret |-> res.ret]

GuardHolds(i, l, r) ==
  \/ i.guard = "always"
  \/ i.guard = "gs_lshift" /\ l
  \/ i.guard = "gs_rshift" /\ r

\* index of the next raise whose test passes with the tracker as it is now
NextRaise(prog, l, r) ==
  LET ok == {i \in 1..Len(prog) : GuardHolds(prog[i], l, r)}
  IN IF ok = {} THEN 0 ELSE CHOOSE i \in ok : \A j \in ok : i <= j

\* Observer of what the listeners after this one see: an event goes on to
\* them iff the listener returns ZMK_EV_EVENT_BUBBLE for it (such an
\* invocation raises nothing); a press adds its keycode, a release removes it.
Downstream(d, ev, ret) ==
  IF ret # ZMK_EV_EVENT_BUBBLE THEN d
  ELSE IF ev.state THEN d \cup {ev.keycode} ELSE d \ {ev.keycode}

\* The event manager hands an event to the listener, which is subscribed to
\* zmk_keycode_state_changed: the Shift switch runs at once.
Dispatch(ev, phys, stk) ==
  LET res == us_printed_on_jis_keycode_listener(ev.keycode, ev.state, gs_lshift, gs_rshift)
  IN /\ gs_lshift' = res.l
     /\ gs_rshift' = res.r
     /\ stack' = Append(stk, Frame(ev, phys, gs_lshift, gs_rshift))
     /\ done' = NoDone
     /\ down' = Downstream(down, ev, res.ret)

Quiet == stack = <<>> /\ ~overflow
PowerUnchanged == UNCHANGED powerVars

\* a key of the matrix other than Shift goes down
PressKey ==
  /\ Quiet
  /\ held = NoKey
  /\ \E k \in PlainKeys :
       /\ held' = k
       /\ Dispatch(Ev(k, TRUE), TRUE, stack)
  /\ pre_press' = <<gs_lshift, gs_rshift>>
  /\ UNCHANGED <<phys_l, phys_r, overflow>>
  /\ PowerUnchanged

\* the held key goes up
ReleaseKey ==
  /\ Quiet
  /\ held # NoKey
  /\ held' = NoKey
  /\ Dispatch(Ev(held, FALSE), TRUE, stack)
  /\ UNCHANGED <<phys_l, phys_r, pre_press, overflow>>
  /\ PowerUnchanged

\* physical Left Shift changes state
LeftShiftKey ==
  /\ Quiet
  /\ phys_l' = ~phys_l
  /\ Dispatch(Ev(LEFT_SHIFT, ~phys_l), TRUE, stack)
  /\ pre_press' = <<>>
  /\ UNCHANGED <<held, phys_r, overflow>>
  /\ PowerUnchanged

\* physical Right Shift changes state
RightShiftKey ==
  /\ Quiet
  /\ phys_r' = ~phys_r
  /\ Dispatch(Ev(RIGHT_SHIFT, ~phys_r), TRUE, stack)
  /\ pre_press' = <<>>
  /\ UNCHANGED <<held, phys_l, overflow>>
  /\ PowerUnchanged

Top == stack[Len(stack)]
Below == SubSeq(stack, 1, Len(stack) - 1)

\* the innermost invocation reaches a ZMK_EVENT_RAISE whose test passes: the
\* raised event is dispatched to the listener before the call returns
RaiseEvent ==
  /\ stack # <<>>
  /\ ~overflow
  /\ Len(stack) < MaxDepth
  /\ LET n == NextRaise(Top.prog, gs_lshift, gs_rshift)
     IN /\ n # 0
        /\ Dispatch(Top.prog[n].ev, FALSE,
                    Append(Below, [Top EXCEPT !.prog = SubSeq(@, n + 1, Len(@)),
                                              !.raised = Append(@, Top.prog[n].ev)]))
  /\ UNCHANGED <<held, phys_l, phys_r, pre_press, overflow>>
  /\ PowerUnchanged

\* the nesting of dispatches exceeds what the model follows
NestTooDeep ==
  /\ stack # <<>>
  /\ ~overflow
  /\ Len(stack) >= MaxDepth
  /\ NextRaise(Top.prog, gs_lshift, gs_rshift) # 0
  /\ overflow' = TRUE
  /\ done' = NoDone
  /\ UNCHANGED <<gs_lshift, gs_rshift, stack, held, phys_l, phys_r, pre_press, down>>
  /\ PowerUnchanged

\* the innermost invocation has no raise left and returns
Return ==
  /\ stack # <<>>
  /\ ~overflow
  /\ NextRaise(Top.prog, gs_lshift, gs_rshift) = 0
  /\ stack' = Below
  /\ done' = [Top EXCEPT !.prog = <<>>]
  /\ UNCHANGED <<gs_lshift, gs_rshift, held, phys_l, phys_r, pre_press, overflow, down>>
  /\ PowerUnchanged

RemapInit ==
  /\ PowerInit
  /\ ~usb_powered
  /\ RemapIdle

RemapNext ==
  \/ PressKey
  \/ ReleaseKey
  \/ LeftShiftKey
  \/ RightShiftKey
  \/ RaiseEvent
  \/ NestTooDeep
  \/ Return

SpecRemap == RemapInit /\ [][RemapNext]_vars


\* ========================================================================
\* Properties
\* ========================================================================
Evaluated == op.eval.kind # "none"
Frames == {stack[i] : i \in DOMAIN stack} \cup (IF done.kind = "frame" THEN {done} ELSE {})
IsPrefix(s, t) == Len(s) <= Len(t) /\ s = SubSeq(t, 1, Len(s))

\* C1: with USB unpowered the target mode an evaluation computes depends on
\* the idle duration d alone: d >= 30000 gives Sleep3, else d >= 15000 Sleep2,
\* else d >= 5000 Sleep1, else Active (boundaries inclusive), whatever the
\* stored mode; and of two evaluations the one with the larger d never has
\* the shallower target.
C1_TargetModeByIdleDuration ==
  /\ (op.name = "work" /\ ~usb_powered) =>
       /\ op.eval.kind = "idle"
       /\ op.eval.idle_time = now - last_activity_time
       /\ op.eval.target_mode =
            (IF op.eval.idle_time >= 30000 THEN "SLEEP3"
             ELSE IF op.eval.idle_time >= 15000 THEN "SLEEP2"
             ELSE IF op.eval.idle_time >= 5000 THEN "SLEEP1"
             ELSE "ACTIVE")
  /\ (op.eval.kind = "idle" /\ prev.kind = "idle" /\ prev.idle_time <= op.eval.idle_time) =>
       ModeRank(prev.target_mode) <= ModeRank(op.eval.target_mode)

C1_Witness ==
  /\ op.eval.kind = "idle"
  /\ op.eval.idle_time = 15000
  /\ op.eval.before = "SLEEP3"
  /\ op.eval.target_mode = "SLEEP2"
  /\ prev.kind = "idle"
  /\ prev.idle_time = 14999
  /\ prev.target_mode = "SLEEP1"

\* C2: after every link-acquired transition the mode is Active and the idle
\* duration is 0.
C2_LinkAcquiredIsActive ==
  op.name = "link_acquired" => (current_mode = "ACTIVE" /\ now - last_activity_time = 0)

\* C3 as stated: while no link is tracked no evaluation is pending and none fires.
C3_NoEvaluationWithoutLink ==
  split_conn = NoConn => (~work_pending /\ op.name # "work")

\* C3 amended: right after a link-lost transition no evaluation is pending,
\* and an evaluation that fires while no link is tracked (activity still
\* schedules one) requests nothing, leaves the mode alone and schedules nothing.
C3_EvaluationWithoutLinkIsInert ==
  /\ op.name = "link_lost" => (split_conn = NoConn /\ ~work_pending)
  /\ (op.name = "work" /\ split_conn = NoConn) =>
       /\ last_req = NoReq
       /\ current_mode = op.before
       /\ ~work_pending

C3_Witness ==
  /\ op.name = "work"
  /\ split_conn = NoConn
  /\ connected = {}

\* C4: the link-lost transition leaves no evaluation pending, no handle and
\* the mode Active, whatever the mode was; and in every state without a
\* tracked link the mode is Active and the step that led there requested no
\* parameter update.
C4_LinkLostResets ==
  /\ op.name = "link_lost" =>
       (~work_pending /\ split_conn = NoConn /\ current_mode = "ACTIVE")
  /\ split_conn = NoConn => (current_mode = "ACTIVE" /\ last_req = NoReq)

C4_Witness ==
  /\ op.name = "link_lost"
  /\ op.before = "SLEEP2"
  /\ current_mode = "ACTIVE"

\* C5: an evaluation with a tracked link under USB power never requests a
\* sleep profile (it requests the Active profile or nothing) and never sets
\* the mode to a sleep mode: the mode is Active or what it was.
C5_UsbPowerKeepsActive ==
  (Evaluated /\ split_conn # NoConn /\ usb_powered) =>
    /\ \/ last_req = NoReq
       \/ /\ last_req.conn = split_conn
          /\ last_req.param = ConnParam("ACTIVE")
          /\ last_req.param \notin {ConnParam(m) : m \in SleepModes}
    /\ current_mode = "ACTIVE" \/ current_mode = op.before
    /\ op.before = "ACTIVE" => current_mode = "ACTIVE"

C5_Witness ==
  /\ op.name = "work"
  /\ Evaluated
  /\ usb_powered
  /\ op.before = "SLEEP2"
  /\ now - last_activity_time = 30000
  /\ current_mode = "ACTIVE"
  /\ last_req # NoReq

Boundaries == <<5000, 15000, 30000>>
Levels == <<"ACTIVE", "SLEEP1", "SLEEP2", "SLEEP3">>

\* C6: after a link is acquired at time t0 on an idle controller, with USB
\* unpowered, no later event and every request succeeding, evaluations run
\* exactly at t0 + 5000, t0 + 15000 and t0 + 30000, and the mode is Active
\* before t0 + 5000, Sleep1 from its evaluation, Sleep2 from t0 + 15000 and
\* Sleep3 from t0 + 30000: each level in turn, the next boundary pending.
C6_PowerScenario ==
  scn.active =>
    LET d == now - scn.t0
        due == work_pending /\ work_deadline = now
        passed == Cardinality({i \in 1..3 : Boundaries[i] <= d})
        n == Len(scn.evals)
    IN /\ split_conn # NoConn
       /\ last_activity_time = scn.t0
       /\ n = IF due THEN passed - 1 ELSE passed
       /\ scn.evals = SubSeq(Boundaries, 1, n)
       /\ current_mode = Levels[n + 1]
       /\ n < 3 => (work_pending /\ work_deadline = scn.t0 + Boundaries[n + 1])
       /\ n = 3 => ~work_pending

C6_Witness ==
  /\ scn.active
  /\ scn.evals = <<5000, 15000, 30000>>
  /\ current_mode = "SLEEP3"
  /\ now - scn.t0 > 30000

\* C7: at most one evaluation is pending and it carries the deadline of the
\* most recent schedule request.
C7_PendingCarriesLatestDeadline ==
  work_pending => work_deadline = sched_req

TrackerChanged == gs_lshift' # gs_lshift \/ gs_rshift' # gs_rshift
PhysicalShiftStep == phys_l' # phys_l \/ phys_r' # phys_r

\* C8: the tracker changes only in steps that handle a physical Shift event,
\* and after the press and the release of a table key with no physical Shift
\* event in between, both flags are what they were before the press.
C8_TrackerFollowsPhysicalShiftOnly ==
  /\ [][TrackerChanged => PhysicalShiftStep]_vars
  /\ []((/\ done.kind = "frame"
         /\ done.phys
         /\ ~done.state
         /\ done.keycode \in TableKeys
         /\ stack = <<>>
         /\ pre_press # <<>>) => <<gs_lshift, gs_rshift>> = pre_press)

PressOfTableKey(f) == f.state /\ f.keycode \in TableKeys
ShiftAtLookup(f) == f.l0 \/ f.r0

\* what C9 states: both Shift keys are released
PressEventsAsStated(f) ==
  LET a == TableEntry(f.keycode)
  IN IF ShiftAtLookup(f)
       THEN When(~a.is_shift_ifshift, <<Ev("LEFT_SHIFT", FALSE), Ev("RIGHT_SHIFT", FALSE)>>)
            \o <<Ev(a.regist_ifshift, TRUE)>>
     ELSE When(a.is_shift, <<Ev("LEFT_SHIFT", TRUE)>>) \o <<Ev(a.regist, TRUE)>>

\* what the code raises: the Shift keys the tracker holds are released
PressEventsHeldSides(f) ==
  LET a == TableEntry(f.keycode)
  IN IF ShiftAtLookup(f)
       THEN When(~a.is_shift_ifshift,
                 When(f.l0, <<Ev("LEFT_SHIFT", FALSE)>>) \o When(f.r0, <<Ev("RIGHT_SHIFT", FALSE)>>))
            \o <<Ev(a.regist_ifshift, TRUE)>>
     ELSE When(a.is_shift, <<Ev("LEFT_SHIFT", TRUE)>>) \o <<Ev(a.regist, TRUE)>>

\* C9 as stated: the invocation for the press of a table key raises, in
\* order, the release of both Shift keys (Shift active, target without
\* Shift) or a press of Left Shift (Shift inactive, target with Shift), then
\* the press of the target chosen by the Shift state at lookup; nothing else.
C9_PressEventsBothShifts ==
  \A f \in Frames :
    PressOfTableKey(f) =>
      /\ IsPrefix(f.raised, PressEventsAsStated(f))
      /\ f.prog = <<>> => f.raised = PressEventsAsStated(f)

\* C9 amended: as stated, but the releases are those of the Shift keys the
\* tracker holds at lookup (left, right or both), left first.
C9_PressEventsHeldShifts ==
  \A f \in Frames :
    PressOfTableKey(f) =>
      /\ IsPrefix(f.raised, PressEventsHeldSides(f))
      /\ f.prog = <<>> => f.raised = PressEventsHeldSides(f)
      /\ (f.keycode = "N2" /\ ~ShiftAtLookup(f) /\ f.prog = <<>>) =>
           f.raised = <<Ev("N2", TRUE)>>
      /\ (f.keycode = "N2" /\ f.l0 /\ f.r0 /\ f.prog = <<>>) =>
           f.raised = <<Ev("LEFT_SHIFT", FALSE), Ev("RIGHT_SHIFT", FALSE), Ev("LBRC", TRUE)>>

C9_Witness ==
  /\ done.kind = "frame"
  /\ done.phys
  /\ done.keycode = "N2"
  /\ done.state
  /\ done.l0
  /\ ~done.r0
  /\ done.raised = <<Ev("LEFT_SHIFT", FALSE), Ev("LBRC", TRUE)>>

Remapped == TableKeys \cup {"CAPSLOCK"}

\* C10: an invocation of the listener returns Handled for CapsLock and for
\* every table key, and for every other keycode returns Bubble without
\* raising any event; Left and Right Shift only set their tracker flag.
C10_BubbleUnlessRemapped ==
  /\ \A f \in Frames : f.keycode \notin Remapped => (f.raised = <<>> /\ f.prog = <<>>)
  /\ done.kind = "frame" =>
       /\ done.keycode \in Remapped => done.ret = "HANDLED"
       /\ done.keycode \notin Remapped => done.ret = "BUBBLE"
       /\ done.keycode = "LEFT_SHIFT" => gs_lshift = done.state
       /\ done.keycode = "RIGHT_SHIFT" => gs_rshift = done.state

C10_Witness ==
  /\ done.kind = "frame"
  /\ done.phys
  /\ done.keycode = "LEFT_SHIFT"
  /\ done.ret = "BUBBLE"
  /\ done.raised = <<>>
  /\ gs_lshift
  /\ held \in TableKeys

\* C11: when an evaluation without USB power requests the profile of a target
\* different from the stored mode and the request fails, the mode is what it
\* was and no evaluation is pending after the step; when the request
\* succeeds the mode is the target and the evaluation for the next boundary
\* (counted from the activity timestamp) is pending, none after Sleep3.
C11_FailedUpdateKeepsMode ==
  (op.eval.kind = "idle" /\ op.eval.target_mode # op.eval.before) =>
    /\ last_req = Req(split_conn, ConnParam(op.eval.target_mode))
    /\ op.eval.err # 0 =>
         /\ current_mode = op.eval.before
         /\ ~work_pending
         /\ sched_req = 0
    /\ op.eval.err = 0 =>
         /\ current_mode = op.eval.target_mode
         /\ current_mode = "SLEEP1" =>
              (work_pending /\ work_deadline = last_activity_time + 15000)
         /\ current_mode = "SLEEP2" =>
              (work_pending /\ work_deadline = last_activity_time + 30000)
         /\ current_mode = "ACTIVE" =>
              (work_pending /\ work_deadline = last_activity_time + 5000)
         /\ current_mode = "SLEEP3" => ~work_pending

C11_Witness ==
  /\ op.name = "work"
  /\ op.eval.kind = "idle"
  /\ op.eval.before = "SLEEP1"
  /\ op.eval.target_mode = "SLEEP2"
  /\ op.eval.err # 0
  /\ current_mode = "SLEEP1"
  /\ ~work_pending

RanOnLink == op.eval.kind \in {"idle", "usb"}
RequestFailed == RanOnLink /\ op.eval.err # 0
ActivityStep == op.name \in {"key", "mouse"}

\* C12 as stated: whenever a request has failed and the link stays tracked, a
\* later evaluation on the link eventually runs (the retry), whether or not
\* any key or pointer event follows.
C12_EventuallyRetried ==
  retry_due ~> ~retry_due

\* C12 amended: a failed request on the USB path leaves the poll pending
\* 5000 ms later; a failed request on the idle path leaves nothing pending.
\* The retry then comes with the next activity event: in a mode other than
\* Active the handler evaluates at once, in Active it schedules the
\* evaluation 5000 ms later; and a scheduled evaluation that fires with the
\* link tracked does evaluate.
C12_RetryWaitsForTrigger ==
  /\ retry_due => split_conn # NoConn
  /\ (RequestFailed /\ op.eval.kind = "usb") => (work_pending /\ work_deadline = now + 5000)
  /\ (RequestFailed /\ op.eval.kind = "idle") => ~work_pending
  /\ (ActivityStep /\ split_conn # NoConn /\ op.before # "ACTIVE") => RanOnLink
  /\ (ActivityStep /\ retry_due) =>
       \/ RequestFailed
       \/ work_pending /\ work_deadline = now + 5000
  /\ (op.name = "work" /\ split_conn # NoConn) => RanOnLink

C12_Witness ==
  /\ retry_due
  /\ ~usb_powered
  /\ op.name = "tick"
  /\ current_mode = "SLEEP1"
  /\ ~work_pending
  /\ now - last_activity_time >= 30000

\* C13: after the handler of a key or pointer event the activity timestamp
\* is now and no evaluation scheduled earlier survives (one is pending only
\* 5000 ms from now).  If the mode was not Active a link is tracked and one
\* evaluation ran inside the handler, leaving the mode Active when its
\* request succeeded; if the mode was Active no evaluation ran, nothing was
\* requested and one is pending exactly 5000 ms after the activity.
C13_ActivityHandler ==
  ActivityStep =>
    /\ last_activity_time = now
    /\ work_pending => work_deadline = now + 5000
    /\ op.before # "ACTIVE" =>
         /\ split_conn # NoConn
         /\ RanOnLink
         /\ last_req # NoReq
         /\ op.eval.err = 0 => (current_mode = "ACTIVE" /\ work_pending)
         /\ op.eval.err # 0 => current_mode = op.before
    /\ op.before = "ACTIVE" =>
         /\ op.eval = NoEval
         /\ last_req = NoReq
         /\ current_mode = "ACTIVE"
         /\ work_pending

C13_Witness ==
  /\ op.name = "mouse"
  /\ op.before = "SLEEP3"
  /\ op.eval.kind = "idle"
  /\ op.eval.idle_time = 0
  /\ op.eval.err = 0
  /\ current_mode = "ACTIVE"
  /\ work_deadline = now + 5000

\* C14: an evaluation without USB power whose target equals the stored mode
\* requests nothing and leaves the mode; in Active, Sleep1 and Sleep2 the
\* evaluation is pending afterwards at the next deeper threshold counted from
\* the activity timestamp, which lies in the future; in Sleep3 nothing is
\* pending and nothing was asked of the work item.
C14_SameModeReschedules ==
  (op.eval.kind = "idle" /\ op.eval.target_mode = op.eval.before) =>
    /\ last_req = NoReq
    /\ current_mode = op.eval.before
    /\ current_mode = "ACTIVE" =>
         (work_pending /\ work_deadline = last_activity_time + 5000 /\ work_deadline > now)
    /\ current_mode = "SLEEP1" =>
         (work_pending /\ work_deadline = last_activity_time + 15000 /\ work_deadline > now)
    /\ current_mode = "SLEEP2" =>
         (work_pending /\ work_deadline = last_activity_time + 30000 /\ work_deadline > now)
    /\ current_mode = "SLEEP3" => (~work_pending /\ sched_req = 0)

C14_Witness ==
  /\ op.name = "work"
  /\ op.eval.kind = "idle"
  /\ op.eval.before = "SLEEP3"
  /\ op.eval.target_mode = "SLEEP3"
  /\ op.eval.idle_time > 30000
  /\ current_mode = "SLEEP3"
  /\ ~work_pending
  /\ prev.kind = "idle"
  /\ prev.before = "SLEEP1"
  /\ prev.target_mode = "SLEEP1"

\* C15: after every evaluation that ran with a link under USB power the next
\* evaluation is pending 5000 ms later, whether or not a request was issued
\* and whatever it returned; the Active profile is requested only from a
\* mode other than Active, the mode becomes Active when that request
\* succeeds and is otherwise what it was.
C15_UsbPollReschedules ==
  op.eval.kind = "usb" =>
    /\ usb_powered /\ split_conn # NoConn
    /\ work_pending /\ work_deadline = now + 5000 /\ sched_req = now + 5000
    /\ op.eval.before = "ACTIVE" => (last_req = NoReq /\ current_mode = "ACTIVE")
    /\ op.eval.before # "ACTIVE" =>
         /\ last_req = Req(split_conn, UsbActiveParam)
         /\ op.eval.err = 0 => current_mode = "ACTIVE"
         /\ op.eval.err # 0 => current_mode = op.eval.before

C15_Witness ==
  /\ op.name = "work"
  /\ op.eval.kind = "usb"
  /\ op.eval.before = "SLEEP1"
  /\ op.eval.err # 0
  /\ current_mode = "SLEEP1"
  /\ work_pending
  /\ work_deadline = now + 5000

ReleaseOfTableKey(f) == ~f.state /\ f.keycode \in TableKeys

\* what C16 states for the invocation f
ReleaseEventsAsStated(f) ==
  LET a == TableEntry(f.keycode)
  IN IF ShiftAtLookup(f)
       THEN <<Ev(a.regist_ifshift, FALSE)>>
            \o When(~a.is_shift_ifshift,
                    When(phys_l, <<Ev("LEFT_SHIFT", TRUE)>>)
                    \o When(phys_r, <<Ev("RIGHT_SHIFT", TRUE)>>))
     ELSE <<Ev(a.regist, FALSE)>> \o When(a.is_shift, <<Ev("LEFT_SHIFT", FALSE)>>)

\* C16: the invocation for the release of a table key raises first the
\* release of the target chosen by the Shift state at lookup, then only the
\* restoration: a press of each Shift side physically held (Shift active,
\* target without Shift) or a release of Left Shift (Shift inactive, target
\* with Shift); nothing else.
C16_ReleaseEvents ==
  \A f \in Frames :
    ReleaseOfTableKey(f) =>
      /\ IsPrefix(f.raised, ReleaseEventsAsStated(f))
      /\ f.prog = <<>> => f.raised = ReleaseEventsAsStated(f)

Drawn == op.eval.kind = "profile"
Divisor(mode) ==
  CASE mode = "ACTIVE" -> 1 [] mode = "SLEEP1" -> 2 [] mode = "SLEEP2" -> 4 [] OTHER -> 8
IntervalsAndTimeout ==
  /\ last_req.param.interval_min = op.eval.B * Divisor(op.eval.mode)
  /\ last_req.param.interval_max = last_req.param.interval_min
  /\ last_req.param.timeout = op.eval.S
  /\ last_req.param.latency >= 0
  /\ \A m1, m2 \in power_mode :
       ModeRank(m1) < ModeRank(m2) =>
         ProfileFor(op.eval.B, op.eval.L, op.eval.S, m1).interval_min
           < ProfileFor(op.eval.B, op.eval.L, op.eval.S, m2).interval_min
  /\ \A m \in power_mode :
       ConnParam(m) = ProfileFor(CONFIG_ZMK_SPLIT_BLE_PREF_INT,
                                 CONFIG_ZMK_SPLIT_BLE_PREF_LATENCY,
                                 CONFIG_ZMK_SPLIT_BLE_PREF_TIMEOUT, m)
  /\ UsbActiveParam = UsbProfileFor(CONFIG_ZMK_SPLIT_BLE_PREF_INT,
                                    CONFIG_ZMK_SPLIT_BLE_PREF_LATENCY,
                                    CONFIG_ZMK_SPLIT_BLE_PREF_TIMEOUT)

\* C17 as stated: the profile of a mode has both intervals B, 2B, 4B, 8B
\* (strictly increasing), the timeout S, on the USB path too, and the latency
\* L divided by 1, 2, 4, 8 rounded down.
C17_ProfileFloorLatency ==
  Drawn =>
    /\ IntervalsAndTimeout
    /\ last_req.param.latency = op.eval.L \div Divisor(op.eval.mode)

\* C17 amended: as stated, but the latency is L divided by 1, 2, 4, 8 rounded
\* up: the least n with n * divisor >= L.
C17_ProfileCeilLatency ==
  Drawn =>
    /\ IntervalsAndTimeout
    /\ last_req.param.latency * Divisor(op.eval.mode) >= op.eval.L
    /\ (last_req.param.latency - 1) * Divisor(op.eval.mode) < op.eval.L

C17_Witness ==
  /\ Drawn
  /\ ~op.eval.usb
  /\ op.eval.B = 3
  /\ op.eval.L = CONFIG_ZMK_SPLIT_BLE_PREF_LATENCY
  /\ op.eval.mode = "SLEEP2"
  /\ last_req.param.latency = 8
  /\ last_req.param.interval_min = 12

AllKeysUp == Quiet /\ held = NoKey /\ ~phys_l /\ ~phys_r

\* C18: whenever every physical key is up and no event is being handled,
\* every keycode pressed in the events that went on past the listener has
\* been released in them: no target and no Shift is left pressed.
C18_NoKeyLeftPressed ==
  AllKeysUp => down = {}

\* the pending evaluation is due later than the time the model covers
DueBeyondHorizon == work_pending /\ work_deadline > MaxTime

PluggedAsleep ==
  /\ op.name = "usb"
  /\ usb_powered
  /\ split_conn # NoConn
  /\ current_mode \in SleepModes

\* C19: if no parameter-update request ever fails, then whenever USB power
\* appears while a link is tracked in a sleep mode, the mode eventually is
\* Active, unless before that a key or pointer event occurs, USB power goes
\* away or the link is lost or replaced (runs whose pending evaluation is due
\* after the modelled time are left undecided).
C19_UsbWakesSleepingLink ==
  ([]~RequestFailed) =>
    [](PluggedAsleep =>
         <>(\/ current_mode = "ACTIVE"
            \/ ActivityStep
            \/ ~usb_powered
            \/ split_conn = NoConn
            \/ op.name = "link_acquired"
            \/ DueBeyondHorizon))

\* what an invocation of the listener depends on: the event and the Shift
\* tracker at entry
Entry(f) == <<f.keycode, f.state, f.l0, f.r0>>

\* C20: handling one key event terminates: no invocation of the listener is
\* nested inside an invocation for the same event entered with the same Shift
\* tracker (the listener is deterministic in these, so such a nesting repeats
\* without end and emits events without bound).
C20_HandlingTerminates ==
  \A i, j \in DOMAIN stack : i < j => Entry(stack[i]) # Entry(stack[j])

====
